---- MODULE Spec2Model ----
(***************************************************************************)
(* A model of the docker-proxy gateway: the passive variant (worker.js,    *)
(* token cache + 429 retry + WWW-Authenticate rewrite) and the active      *)
(* variant (part_000, server-side auto-auth on 401).  Each inbound request *)
(* is one task; tasks interleave at their await points (outbound fetch,    *)
(* body read, backoff sleep) and share the clock and the token cache.      *)
(***************************************************************************)
EXTENDS Integers, Sequences, FiniteSets, TLC

VARIABLES variant, now, ticks, served, tokenCache, task,
          argPath, retScope   \* the argument and the result of one parseScope call

vars == <<variant, now, ticks, served, tokenCache, task, argPath, retScope>>

(* ------------------------------ bounds --------------------------------- *)

\* clock advances per behaviour
MaxTicks == 2
\* inbound requests per behaviour
MaxRequests == 2
\* redirects the HTTP transport follows on its own for one redirect: 'follow' GET
MaxHops == 1
\* segments of a path handed to parseScope
MaxLen == 4

\* the execution units (one logical task per in-flight request)
Tasks == {"t1", "t2"}

\* the amounts by which the clock advances
TickSteps == {10000, 240000}

(* -------------------------- program constants -------------------------- *)

REGISTRY == "https://registry-1.docker.io"
AUTH_SERVICE == "https://auth.docker.io"
TOKEN_CACHE_TTL == 240000
\* the lifetime the issuer gives a token: 5 minutes
ISSUER_LIFETIME == 300000
BACKOFF_MS == 10000
TIMEOUT_MS_PASSIVE == 120000
TIMEOUT_MS_ACTIVE == 30000
TIMEOUT_MS == IF variant = "passive" THEN TIMEOUT_MS_PASSIVE ELSE TIMEOUT_MS_ACTIVE

ACCEPT_DEFAULT == "application/vnd.docker.distribution.manifest.v2+json, ..."
HOP_BY_HOP == {"host", "connection", "upgrade", "proxy-connection"}
BODY_METHODS == {"POST", "PUT", "PATCH", "DELETE"}
SCOPE_MARKERS == {"manifests", "blobs", "tags", "referrers"}

\* what Headers.get / searchParams.get / a falsy token give: JS null
NULL == "<null>"

(* ------------------------------ Headers -------------------------------- *)
(* A Headers object is a function from lower-cased names to values.        *)

NoHeaders == [k \in {} |-> ""]

HHas(h, k) == k \in DOMAIN h

HGet(h, k) == IF k \in DOMAIN h THEN h[k] ELSE NULL

HSet(h, k, v) == [x \in (DOMAIN h) \cup {k} |-> IF x = k THEN v ELSE h[x]]

HDelete(h, k) == [x \in (DOMAIN h) \ {k} |-> h[x]]

\* JS truthiness of a string-or-null value
Truthy(v) == v # NULL /\ v # ""

(* ------------------------------ parseScope ----------------------------- *)
(* A path is the sequence path.split('/') yields, empty segments included. *)

RECURSIVE Join(_)
Join(parts) ==
    IF Len(parts) = 0 THEN ""
    ELSE IF Len(parts) = 1 THEN parts[1]
    ELSE parts[1] \o "/" \o Join(Tail(parts))

NonEmpty(segs) == SelectSeq(segs, LAMBDA s : s # "")

\* a test of the segment after the version prefix only
IncludesSecond(parts, x) == Len(parts) >= 2 /\ parts[2] = x

Includes(parts, x) == \E i \in 1..Len(parts) : parts[i] = x

\* the index of the last match instead of the first
FindIndexLast(parts, S) ==
    IF \E i \in 1..Len(parts) : parts[i] \in S
    THEN (CHOOSE i \in 1..Len(parts) :
             /\ parts[i] \in S
             /\ \A j \in (i+1)..Len(parts) : parts[j] \notin S) - 1
    ELSE -1

\* Array.findIndex, 0-based, -1 when nothing matches
FindIndex(parts, S) ==
    IF \E i \in 1..Len(parts) : parts[i] \in S
    THEN (CHOOSE i \in 1..Len(parts) :
             /\ parts[i] \in S
             /\ \A j \in 1..(i-1) : parts[j] \notin S) - 1
    ELSE -1

\* Array.slice(from, to), 0-based, to exclusive
Slice(parts, from, to) ==
    IF to <= from THEN << >> ELSE SubSeq(parts, from + 1, to)

parseScope(path) ==
    LET parts == NonEmpty(path)
        suffixIndex == FindIndex(parts, SCOPE_MARKERS)
        nameParts == IF suffixIndex # -1
                     THEN Slice(parts, 1, suffixIndex)
                     ELSE Slice(parts, 1, Len(parts))
        repoName == Join(nameParts)
    IN  IF Len(parts) < 2 THEN ""
        ELSE IF Includes(parts, "_catalog") THEN "registry:catalog:*"
        ELSE IF repoName = "" THEN ""
        ELSE IF Len(nameParts) < 2
             THEN "repository:" \o "library/" \o repoName \o ":pull"
             ELSE "repository:" \o repoName \o ":pull"


\* path.split('/') of the paths parseScope is checked on: up to MaxLen segments,
\* empty ones included
Segments == {"", "v2", "org", "nginx", "manifests", "blobs", "tags", "referrers", "_catalog"}

RECURSIVE SeqsUpTo(_, _)
SeqsUpTo(S, n) ==
    IF n = 0 THEN {<< >>}
    ELSE LET shorter == SeqsUpTo(S, n - 1)
         IN  shorter \cup {Append(q, x) : q \in {r \in shorter : Len(r) = n - 1}, x \in S}

Paths == SeqsUpTo(Segments, MaxLen)

(* --------------------------- inbound requests -------------------------- *)

GATEWAY_HOST == "gw.example"

Req(path, method, headers, scope) ==
    [path |-> path, method |-> method, headers |-> headers, scope |-> scope]

ClientBase == HSet(NoHeaders, "host", GATEWAY_HOST)
ClientBasic == HSet(ClientBase, "authorization", "Basic dXNlcg==")
ClientBearer == HSet(HSet(ClientBase, "authorization", "Bearer client"), "accept", "*/*")

PATH_ROOT == <<"", "v2", "">>
PATH_AUTH == <<"", "v2", "auth">>
PATH_OTHER == <<"", "favicon.ico">>
PATH_MANIFEST == <<"", "v2", "nginx", "manifests", "latest">>
PATH_UPLOAD == <<"", "v2", "org", "app", "blobs", "uploads", "">>

SCOPE_NGINX == "repository:library/nginx:pull"

\* requests to the /v2/auth endpoint
AuthRequests ==
    { Req(PATH_AUTH, "GET", ClientBase, NULL),
      Req(PATH_AUTH, "GET", ClientBase, ""),
      Req(PATH_AUTH, "GET", ClientBase, SCOPE_NGINX),
      Req(PATH_AUTH, "GET", ClientBasic, SCOPE_NGINX) }

\* a client whose Authorization header is the word the cache key uses for
\* 'no credential'
ClientAnonymous == HSet(ClientBase, "authorization", "anonymous")

\* requests to /v2/auth: three (scope, credential) pairs, two cache keys
CacheRequests ==
    { Req(PATH_AUTH, "GET", ClientBase, SCOPE_NGINX),
      Req(PATH_AUTH, "GET", ClientBasic, SCOPE_NGINX),
      Req(PATH_AUTH, "GET", ClientAnonymous, SCOPE_NGINX) }

\* requests to the registry API
RegistryRequests ==
    { Req(PATH_MANIFEST, "GET", ClientBase, NULL),
      Req(PATH_MANIFEST, "GET", ClientBearer, NULL),
      Req(PATH_UPLOAD, "POST", ClientBase, NULL) }

FixedRequests ==
    { Req(PATH_ROOT, "GET", ClientBase, NULL),
      Req(<<"", "v2">>, "GET", ClientBase, NULL),
      Req(PATH_OTHER, "GET", ClientBase, NULL) }

Requests == AuthRequests \cup RegistryRequests \cup FixedRequests

(* ------------------------ what the network answers --------------------- *)

Resp(status, headers, body) == [status |-> status, headers |-> headers, body |-> body]

NoResp == Resp(0, NoHeaders, [none |-> TRUE])

CDN_LOCATION == "https://cdn.example/blob"
\* a Location value that is no absolute URL
MALFORMED_LOCATION == "http://[cdn"
\* new Request(url) inside fetch: does the string parse as an absolute URL
ValidUrl(url) == url \notin {NULL, "", MALFORMED_LOCATION}
Challenge(realm, service) ==
    "Bearer realm=\"" \o realm \o "\",service=\"" \o service \o "\""

CHALLENGE_HUB == Challenge("https://auth.docker.io/token", "registry.docker.io")
CHALLENGE_OTHER ==
    Challenge("https://auth.example/token", "registry.example")
        \o ",scope=\"repository:library/nginx:pull\""

JsonHeaders == HSet(NoHeaders, "content-type", "application/json")
Stream(name) == [stream |-> name]

Upstream401(challenge) ==
    Resp(401,
         IF challenge = NULL THEN JsonHeaders
         ELSE HSet(JsonHeaders, "www-authenticate", challenge),
         Stream("unauthorized"))

UpstreamRedirect(status, location) ==
    Resp(status,
         IF location = NULL THEN NoHeaders ELSE HSet(NoHeaders, "location", location),
         Stream("redirect"))

\* answers the registry gives to a request sent with redirect: 'manual'
ManualResponses ==
    { Resp(200, JsonHeaders, Stream("manifest")),
      Upstream401(CHALLENGE_HUB), Upstream401(CHALLENGE_OTHER), Upstream401(NULL),
      UpstreamRedirect(301, CDN_LOCATION), UpstreamRedirect(302, CDN_LOCATION),
      UpstreamRedirect(307, CDN_LOCATION), UpstreamRedirect(302, NULL),
      UpstreamRedirect(307, MALFORMED_LOCATION),
      UpstreamRedirect(303, CDN_LOCATION) }

\* answers to a request sent with redirect: 'follow': the transport has followed
\* every redirect that named a Location, so a 3xx answer names none
FollowResponses ==
    { Resp(200, NoHeaders, Stream("blob")),
      Upstream401(CHALLENGE_OTHER), Upstream401(NULL),
      UpstreamRedirect(302, NULL) }

\* the body of a token response: unparsable, or a JSON object with these fields
\* (NULL is JS undefined)
TokenBody(parses, token, access_token) ==
    [parses |-> parses, token |-> token, access_token |-> access_token]

TokenBodies ==
    { TokenBody(TRUE, "tokA", NULL), TokenBody(TRUE, NULL, "tokB"),
      TokenBody(TRUE, "", NULL), TokenBody(TRUE, NULL, NULL),
      TokenBody(FALSE, NULL, NULL) }

TokenStatuses == {200, 429, 500}

IsOk(status) == status >= 200 /\ status <= 299


(* ------------------------------ task state ----------------------------- *)

Ret(v) == [kind |-> "return", value |-> v, message |-> ""]
Throw(msg) == [kind |-> "throw", value |-> NoResp, message |-> msg]
\* an error thrown inside getAuthToken, where a value would be a token
TokenThrow(msg) == [kind |-> "throw", value |-> NULL, message |-> msg]

NoReq == Req(<< >>, "", NoHeaders, NULL)
NoFetchOptions == [method |-> "", headers |-> NoHeaders, redirect |-> "", body |-> "none"]
NoBody == TokenBody(FALSE, NULL, NULL)

\* one getAuthToken call: its arguments, and what it has done so far
NoCall ==
    [state |-> "none", scope |-> "", authorization |-> NULL, cacheKey |-> "",
     hit |-> FALSE, requests |-> 0, first |-> 0, final |-> 0, body |-> NoBody,
     sleptFrom |-> -1, issuedAt |-> -1, result |-> NULL]

IdleTask ==
    [pc |-> "idle", req |-> NoReq, fetchOptions |-> NoFetchOptions, call |-> NoCall,
     sent |-> << >>, sentAt |-> 0, hops |-> 0, response |-> NoResp, out |-> NoResp,
     thrown |-> FALSE, escaped |-> FALSE]

\* an outbound request, as handed to fetchWithTimeout
Outbound(to, method, headers, redirect, body) ==
    [to |-> to, method |-> method, headers |-> headers, redirect |-> redirect,
     body |-> body]

\* fetchWithTimeout(url, options): the request leaves and the abort timer starts
Send(tk, rq) == [tk EXCEPT !.sent = Append(@, rq), !.sentAt = now]

LastSent(tk) == tk.sent[Len(tk.sent)]

\* the AbortController of fetchWithTimeout has not fired yet
InTime(tk) == now - tk.sentAt < TIMEOUT_MS

ErrorMessages == {"network error", ""}

(* --------------------------- Gateway Dispatcher ------------------------ *)

ErrorBody(code, message) == [errors |-> <<[code |-> code, message |-> message]>>]

Unavailable(message) ==
    Resp(503, JsonHeaders,
         ErrorBody("SERVICE_UNAVAILABLE",
                   IF message # "" THEN message ELSE "service unavailable"))

\* the challenge with the realm of the upstream left in place
GatewayChallengeUpstreamRealm(service) ==
    Challenge("https://auth.docker.io/token", service)

GatewayChallenge(service) ==
    Challenge("https://" \o GATEWAY_HOST \o "/v2/auth", service)

\* worker.js: what fetch() makes of handleDockerRequest's outcome
PassiveRelay(outcome) ==
    IF outcome.kind = "throw" THEN Unavailable(outcome.message)
    ELSE LET response == outcome.value
             wwwAuth == HGet(response.headers, "www-authenticate")
         IN  IF response.status = 401
             THEN Resp(401,
                       IF Truthy(wwwAuth)
                       THEN HSet(response.headers, "www-authenticate",
                                 GatewayChallenge("registry.docker.io"))
                       ELSE response.headers,
                       response.body)
             ELSE response

\* part_000 with the relayed body left out
ActiveRelayNoBody(outcome) ==
    IF outcome.kind = "throw" THEN Unavailable(outcome.message)
    ELSE Resp(outcome.value.status, outcome.value.headers, [none |-> TRUE])

\* part_000: what fetch() makes of handleDockerRequest's outcome
ActiveRelay(outcome) ==
    IF outcome.kind = "throw" THEN Unavailable(outcome.message)
    ELSE LET response == outcome.value
         IN  IF response.status = 401
             THEN Resp(401,
                       HSet(HSet(JsonHeaders, "docker-distribution-api-version",
                                 "registry/2.0"),
                            "www-authenticate", GatewayChallenge("registry")),
                       ErrorBody("UNAUTHORIZED", "authentication required"))
             ELSE Resp(response.status, response.headers, response.body)

Relay(outcome) ==
    IF variant = "passive" THEN PassiveRelay(outcome) ELSE ActiveRelay(outcome)

\* the task ends: fetch() resolves with a response
Respond(tk, response) == [tk EXCEPT !.pc = "done", !.out = response]

\* the task ends: the promise fetch() returned rejects
Escape(tk) == [tk EXCEPT !.pc = "done", !.escaped = TRUE]

\* handleDockerRequest has returned or thrown, without a try block around it
CompleteUncaught(tk, outcome) ==
    IF outcome.kind = "throw" THEN Escape([tk EXCEPT !.thrown = TRUE])
    ELSE Respond(tk, Relay(outcome))

\* handleDockerRequest has returned or thrown inside fetch()'s try block
Complete(tk, outcome) ==
    Respond([tk EXCEPT !.thrown = (outcome.kind = "throw")], Relay(outcome))

\* the header sanitisation of fetch()
Sanitize(headers) ==
    LET kept == [k \in (DOMAIN headers) \ HOP_BY_HOP |-> headers[k]]
    IN  IF HHas(kept, "accept") THEN kept ELSE HSet(kept, "accept", ACCEPT_DEFAULT)

FetchOptions(req) ==
    [method |-> req.method, headers |-> Sanitize(req.headers), redirect |-> "manual",
     body |-> IF req.method \in BODY_METHODS THEN "stream" ELSE "none"]

IsRoot(path) == path = <<"", "v2", "">> \/ path = <<"", "v2">>
IsAuthPath(path) == path = <<"", "v2", "auth">>
StartsWithV2(path) == Len(path) >= 3 /\ path[1] = "" /\ path[2] = "v2"


(* ------------------------------ handleAuth ----------------------------- *)

\* the failure of /v2/auth reported as a gateway failure
UnauthorizedAs503 == Unavailable("authentication failed")

Unauthorized ==
    Resp(401, JsonHeaders, ErrorBody("UNAUTHORIZED", "authentication failed"))

\* handleAuth without the branch for a missing scope
handleAuthScopeOnly(scope, token) ==
    IF ~Truthy(token) THEN Unauthorized ELSE Resp(200, JsonHeaders, [token |-> token])

\* the response handleAuth builds from the scope parameter and the token
handleAuth(scope, token) ==
    IF ~Truthy(scope)
    THEN Resp(200, JsonHeaders, [token |-> IF Truthy(token) THEN token ELSE ""])
    ELSE IF ~Truthy(token) THEN Unauthorized
    ELSE IF variant = "passive"
         THEN Resp(200, HSet(JsonHeaders, "cache-control", "no-cache"),
                   [token |-> token, access_token |-> token, expires_in |-> 300,
                    issued_at |-> now])
         ELSE Resp(200, JsonHeaders, [token |-> token])

(* --------------------------- handleDockerRequest ----------------------- *)

RECURSIVE PathString(_)
PathString(path) ==
    IF Len(path) = 0 THEN ""
    ELSE IF Len(path) = 1 THEN path[1]
    ELSE path[1] \o "/" \o PathString(Tail(path))

TargetUrl(path) == REGISTRY \o PathString(path)

IsRedirect(status) == status \in {301, 302, 307}

\* the GET to the Location sent with redirects disabled
RedirectModeManual == "manual"

\* redirect: 'follow' of line 183 of worker.js, 146 and 163 of part_000
RedirectMode == "follow"

\* the redirect headers with the delete left out
RedirectHeadersKept(headers) == headers

RedirectHeaders(headers) == HDelete(headers, "authorization")

\* lines 173-188 of worker.js, 137-149 and 154-166 of part_000: follow the
\* redirect with a GET that carries no Authorization, or return the response
FollowRedirect(tk, response, headers, stage) ==
    LET location == HGet(response.headers, "location")
    IN  IF IsRedirect(response.status) /\ Truthy(location) /\ ~ValidUrl(location)
        THEN Complete([tk EXCEPT !.response = response], Throw("Invalid URL"))
        ELSE IF IsRedirect(response.status) /\ Truthy(location)
        THEN [Send(tk, Outbound(location, "GET", RedirectHeaders(headers), RedirectMode, "none"))
                 EXCEPT !.pc = stage, !.response = response, !.hops = 0]
        ELSE Complete([tk EXCEPT !.response = response], Ret(response))

\* part_000 lines 128-135: the request again, with the fetched token
\* retry headers built from nothing but the token
AuthHeadersBare(headers, token) == HSet(NoHeaders, "authorization", "Bearer " \o token)

AuthHeaders(headers, token) == HSet(headers, "authorization", "Bearer " \o token)

Retry(tk, token) ==
    IF tk.fetchOptions.body = "used"
    THEN Complete(tk, Throw("This ReadableStream is disturbed"))
    ELSE [Send(tk, Outbound(TargetUrl(tk.req.path), tk.fetchOptions.method,
                            AuthHeaders(tk.fetchOptions.headers, token),
                            tk.fetchOptions.redirect, tk.fetchOptions.body))
             EXCEPT !.pc = "retry"]

(* ------------------------------ getAuthToken --------------------------- *)

cacheKey(scope, authorization) ==
    scope \o ":" \o (IF Truthy(authorization) THEN authorization ELSE "anonymous")

\* the freshness test with the bound included
CacheFreshInclusive(entry) == now <= entry.expiresAt

\* line 64 of worker.js
CacheFresh(entry) == now < entry.expiresAt

CacheHit(key) ==
    /\ variant = "passive"
    /\ key \in DOMAIN tokenCache
    /\ CacheFresh(tokenCache[key])

\* a write that keeps no entry but its own
CachePutAlone(cache, key, token) ==
    [k \in {key} |-> [token |-> token, expiresAt |-> now + TOKEN_CACHE_TTL]]

CachePut(cache, key, token) ==
    [k \in (DOMAIN cache) \cup {key} |->
        IF k = key THEN [token |-> token, expiresAt |-> now + TOKEN_CACHE_TTL]
        ELSE cache[k]]

TokenUrl(scope) ==
    AUTH_SERVICE \o "/token?service=registry.docker.io"
        \o (IF Truthy(scope) THEN "&scope=" \o scope ELSE "")

TokenRequest(scope, authorization) ==
    Outbound(TokenUrl(scope), "GET",
             IF Truthy(authorization)
             THEN HSet(NoHeaders, "authorization", authorization) ELSE NoHeaders,
             "follow", "none")

\* tokenData.token || tokenData.access_token || null, or the throw of json()
ExtractToken(body) ==
    IF ~body.parses THEN TokenThrow("Unexpected token in JSON")
    ELSE IF Truthy(body.token) THEN Ret(body.token)
    ELSE IF Truthy(body.access_token) THEN Ret(body.access_token)
    ELSE Ret(NULL)

\* line 91 of worker.js; part_000 has no such branch
ShouldRetryNever(status) == FALSE

ShouldRetry(status) == variant = "passive" /\ status = 429

\* the timer of line 93 fires at once
BackoffDueAtOnce(tk) == TRUE

\* setTimeout(resolve, 10000) of line 93 has fired
BackoffDue(tk) == now >= tk.call.sleptFrom + BACKOFF_MS

\* a catch block that throws the error again
CatchRethrow(error) == error

Catch(error) == Ret(NULL)

\* getAuthToken has settled: its caller goes on
AfterToken(tk, outcome) ==
    LET done == [tk EXCEPT !.call.state = IF outcome.kind = "throw" THEN "raised" ELSE "returned",
                           !.call.result = outcome.value]
    IN  IF IsAuthPath(tk.req.path)
        THEN IF outcome.kind = "throw" THEN Escape(done)
             ELSE Respond(done, handleAuth(tk.req.scope, outcome.value))
        ELSE IF outcome.kind = "throw" THEN Complete(done, Throw(outcome.message))
        ELSE IF Truthy(outcome.value) THEN Retry(done, outcome.value)
        ELSE FollowRedirect(done, tk.response, tk.fetchOptions.headers, "redirect")

\* lines 59-86 of worker.js, 55-71 of part_000: up to the first await
StartToken(tk, scope, authorization) ==
    LET key == cacheKey(scope, authorization)
        call == [NoCall EXCEPT !.state = "running", !.scope = scope,
                               !.authorization = authorization, !.cacheKey = key]
    IN  IF CacheHit(key)
        THEN AfterToken([tk EXCEPT !.call = [call EXCEPT !.hit = TRUE]],
                        Ret(tokenCache[key].token))
        ELSE [Send([tk EXCEPT !.call = [call EXCEPT !.requests = 1]],
                   TokenRequest(scope, authorization))
                 EXCEPT !.pc = "token1"]


(* -------------------------------- actions ------------------------------ *)

Init ==
    /\ argPath = << >>
    /\ retScope = NULL
    /\ variant \in {"passive", "active"}
    /\ now = 0
    /\ ticks = 0
    /\ served = 0
    /\ tokenCache = [k \in {} |-> [token |-> "", expiresAt |-> 0]]
    /\ task = [t \in Tasks |-> IdleTask]

\* the clock advances
Tick ==
    /\ ticks < MaxTicks
    /\ \E d \in TickSteps : now' = now + d
    /\ ticks' = ticks + 1
    /\ UNCHANGED <<argPath, retScope, variant, served, tokenCache, task>>

\* fetch(request) up to its first await
Dispatch(req) ==
    LET tk == [IdleTask EXCEPT !.req = req]
    IN  IF IsRoot(req.path)
        THEN Respond(tk, Resp(200,
                 HSet(JsonHeaders, "docker-distribution-api-version", "registry/2.0"),
                 [text |-> "{}"]))
        ELSE IF IsAuthPath(req.path)
        THEN StartToken(tk, IF Truthy(req.scope) THEN req.scope ELSE "",
                        HGet(req.headers, "authorization"))
        ELSE IF ~StartsWithV2(req.path)
        THEN Respond(tk, Resp(404, NoHeaders, [text |-> "Not Found"]))
        ELSE LET options == FetchOptions(req)
                 first == Outbound(TargetUrl(req.path), options.method, options.headers,
                                   options.redirect, options.body)
             IN  [Send(tk, first) EXCEPT
                     !.pc = "first",
                     !.fetchOptions = [options EXCEPT !.body =
                                          IF @ = "stream" THEN "used" ELSE @]]

\* an inbound request arrives and is handled up to its first await
ReceiveFrom(t, requests) ==
    /\ task[t].pc = "idle"
    /\ served < MaxRequests
    /\ \E req \in requests : task' = [task EXCEPT ![t] = Dispatch(req)]
    /\ served' = served + 1
    /\ UNCHANGED <<argPath, retScope, variant, now, ticks, tokenCache>>

Receive(t) == ReceiveFrom(t, Requests)

ReceiveAuth(t) == ReceiveFrom(t, CacheRequests)

\* the client has its response; the execution unit is free again
Deliver(t) ==
    /\ task[t].pc = "done"
    /\ task' = [task EXCEPT ![t] = IdleTask]
    /\ UNCHANGED <<argPath, retScope, variant, now, ticks, served, tokenCache>>

\* the auth service answers a token request with a status line
TokenAnswer(t) ==
    LET tk == task[t] IN
    /\ tk.pc \in {"token1", "token2"}
    /\ InTime(tk)
    /\ \E status \in TokenStatuses :
       \E issued \in (IF IsOk(status) THEN {tk.sentAt, now} ELSE {tk.call.issuedAt}) :
         LET got == [tk EXCEPT !.call.final = status,
                               !.call.issuedAt = issued,
                               !.call.first = IF tk.pc = "token1" THEN status ELSE @]
         IN  task' = [task EXCEPT ![t] =
                IF tk.pc = "token1" /\ ShouldRetry(status)
                THEN [got EXCEPT !.pc = "backoff", !.call.sleptFrom = now]
                ELSE IF variant = "active" /\ ~IsOk(status)
                THEN AfterToken(got, Ret(NULL))
                ELSE [got EXCEPT !.pc = "tokenBody"]]
    /\ UNCHANGED <<argPath, retScope, variant, now, ticks, served, tokenCache>>

\* the 10 s timer of the 429 branch fires: the same request once more
BackoffElapsed(t) ==
    LET tk == task[t] IN
    /\ tk.pc = "backoff"
    /\ BackoffDue(tk)
    /\ task' = [task EXCEPT ![t] =
          [Send([tk EXCEPT !.call.requests = @ + 1],
                TokenRequest(tk.call.scope, tk.call.authorization))
              EXCEPT !.pc = "token2"]]
    /\ UNCHANGED <<argPath, retScope, variant, now, ticks, served, tokenCache>>

\* the body of the token response has been read: text() of an error answer,
\* json() of a successful one
TokenBodyRead(t) ==
    LET tk == task[t] IN
    /\ tk.pc = "tokenBody"
    /\ \E body \in (IF IsOk(tk.call.final) THEN TokenBodies ELSE {NoBody}) :
         LET extracted == ExtractToken(body)
             outcome == IF ~IsOk(tk.call.final) THEN Ret(NULL)
                        ELSE IF extracted.kind = "throw" THEN Catch(extracted)
                        ELSE extracted
             read == [tk EXCEPT !.call.body = body]
         IN  /\ tokenCache' =
                  IF variant = "passive" /\ outcome.kind = "return" /\ Truthy(outcome.value)
                  THEN CachePut(tokenCache, tk.call.cacheKey, outcome.value)
                  ELSE tokenCache
             /\ task' = [task EXCEPT ![t] = AfterToken(read, outcome)]
    /\ UNCHANGED <<argPath, retScope, variant, now, ticks, served>>

\* a token request, or the read of its body, fails: transport error or abort
TokenFail(t) ==
    LET tk == task[t] IN
    /\ tk.pc \in {"token1", "token2", "tokenBody"}
    /\ \E msg \in ErrorMessages :
         task' = [task EXCEPT ![t] = AfterToken(tk, Catch(TokenThrow(msg)))]
    /\ UNCHANGED <<argPath, retScope, variant, now, ticks, served, tokenCache>>

\* the registry answers the first attempt or the retry
UpstreamAnswer(t) ==
    LET tk == task[t] IN
    /\ tk.pc \in {"first", "retry"}
    /\ InTime(tk)
    /\ \E response \in ManualResponses :
         task' = [task EXCEPT ![t] =
            IF tk.pc = "retry"
            THEN FollowRedirect(tk, response, LastSent(tk).headers, "redirectInner")
            ELSE IF /\ variant = "active"
                    /\ response.status = 401
                    /\ ~Truthy(HGet(tk.fetchOptions.headers, "authorization"))
            THEN StartToken([tk EXCEPT !.response = response], parseScope(tk.req.path), "")
            ELSE FollowRedirect(tk, response, tk.fetchOptions.headers, "redirect")]
    /\ UNCHANGED <<argPath, retScope, variant, now, ticks, served, tokenCache>>

\* the GET sent to the Location is answered
RedirectAnswer(t) ==
    LET tk == task[t] IN
    /\ tk.pc \in {"redirectInner", "redirect"}
    /\ InTime(tk)
    /\ \E response \in (IF LastSent(tk).redirect = "follow"
                         THEN FollowResponses ELSE ManualResponses) :
         task' = [task EXCEPT ![t] =
            IF tk.pc = "redirectInner"
            THEN FollowRedirect(tk, response, tk.fetchOptions.headers, "redirect")
            ELSE Complete([tk EXCEPT !.response = response], Ret(response))]
    /\ UNCHANGED <<argPath, retScope, variant, now, ticks, served, tokenCache>>

\* the redirect target answers the GET with a redirect of its own and the
\* transport, asked to follow, sends the next GET itself
TransportFollows(t) ==
    LET tk == task[t] IN
    /\ tk.pc \in {"redirectInner", "redirect"}
    /\ LastSent(tk).redirect = "follow"
    /\ InTime(tk)
    /\ tk.hops < MaxHops
    /\ task' = [task EXCEPT ![t].hops = @ + 1]
    /\ UNCHANGED <<argPath, retScope, variant, now, ticks, served, tokenCache>>

\* an upstream fetch rejects: transport error or abort
UpstreamFail(t) ==
    LET tk == task[t] IN
    /\ tk.pc \in {"first", "retry", "redirectInner", "redirect"}
    /\ \E msg \in ErrorMessages :
         task' = [task EXCEPT ![t] = Complete(tk, Throw(msg))]
    /\ UNCHANGED <<argPath, retScope, variant, now, ticks, served, tokenCache>>

Step(t) ==
    \/ Receive(t)
    \/ Deliver(t)
    \/ TokenAnswer(t)
    \/ BackoffElapsed(t)
    \/ TokenBodyRead(t)
    \/ TokenFail(t)
    \/ UpstreamAnswer(t)
    \/ RedirectAnswer(t)
    \/ TransportFollows(t)
    \/ UpstreamFail(t)

\* Requests served one after another, every kind of request, both variants.
Next == Tick \/ Step("t1")

Spec == Init /\ [][Next]_vars

\* Concurrent requests of the passive variant that use the token cache, the only
\* state two requests share: tasks interleave at every await of getAuthToken.
InitCache == Init /\ variant = "passive"

StepCache(t) ==
    \/ ReceiveAuth(t)
    \/ TokenAnswer(t)
    \/ BackoffElapsed(t)
    \/ TokenBodyRead(t)
    \/ TokenFail(t)

NextCache == Tick \/ \E t \in Tasks : StepCache(t)

SpecCache == InitCache /\ [][NextCache]_vars

(* ------------------- what the timers of the code guarantee ------------- *)

\* the abort of fetchWithTimeout ends a token request that is still waiting for
\* its response; the timer is cleared once the response is there (line 18), so
\* it does not end the read of the body
TokenTimeout(t) == task[t].pc \in {"token1", "token2"} /\ TokenFail(t)

\* time passes; every fetch resolves or is aborted by its timer; the sleep of
\* the 429 branch ends. Nothing is assumed about json() and text().
Fairness ==
    /\ WF_vars(Tick)
    /\ WF_vars(UpstreamAnswer("t1") \/ RedirectAnswer("t1") \/ UpstreamFail("t1"))
    /\ WF_vars(TokenAnswer("t1") \/ TokenTimeout("t1"))
    /\ WF_vars(BackoffElapsed("t1"))

SpecLive == Spec /\ Fairness

(* --------------- getToken calls for one key, slow answers -------------- *)

\* time passes in steps of 110 s and 200 s: a token answer can be under way for
\* most of the request timeout
AgeSteps == {110000, 200000}

TickAge ==
    /\ ticks < MaxTicks
    /\ \E d \in AgeSteps : now' = now + d
    /\ ticks' = ticks + 1
    /\ UNCHANGED <<argPath, retScope, variant, served, tokenCache, task>>

AgeRequests == { Req(PATH_AUTH, "GET", ClientBase, SCOPE_NGINX) }

ReceiveAge(t) == ReceiveFrom(t, AgeRequests)

StepAge(t) ==
    \/ ReceiveAge(t)
    \/ TokenAnswer(t)
    \/ BackoffElapsed(t)
    \/ TokenBodyRead(t)
    \/ TokenFail(t)

NextAge == TickAge \/ \E t \in Tasks : StepAge(t)

SpecAge == InitCache /\ [][NextAge]_vars

(* ------------------- parseScope as a function of the path ------------- *)

InitScope ==
    /\ argPath \in Paths
    /\ retScope = NULL
    /\ variant \in {"passive", "active"}
    /\ now = 0
    /\ ticks = 0
    /\ served = 0
    /\ tokenCache = [k \in {} |-> [token |-> "", expiresAt |-> 0]]
    /\ task = [t \in Tasks |-> IdleTask]

\* const scope = parseScope(path)
ApplyParseScope ==
    /\ retScope = NULL
    /\ retScope' = parseScope(argPath)
    /\ UNCHANGED <<argPath, variant, now, ticks, served, tokenCache, task>>

NextScope == ApplyParseScope

SpecScope == InitScope /\ [][NextScope]_vars


(* ======================================================================= *)
(*                               properties                                *)
(* ======================================================================= *)

Done(t) == task[t].pc = "done"

IsAuthTask(t) == IsAuthPath(task[t].req.path)

IsRegistryTask(t) ==
    /\ StartsWithV2(task[t].req.path)
    /\ ~IsRoot(task[t].req.path)
    /\ ~IsAuthPath(task[t].req.path)

\* C1: every request sent to the URL an upstream Location header named carries
\* no Authorization header, whether the client supplied one or the gateway
\* fetched a Bearer token for the retry.
C1_NoAuthorizationToRedirectTarget ==
    \A t \in Tasks : \A i \in 1..Len(task[t].sent) :
        task[t].sent[i].to = CDN_LOCATION
            => ~HHas(task[t].sent[i].headers, "authorization")

\* the retry carried the fetched Bearer token and its redirect was followed
C1_Witness ==
    \E t \in Tasks : \E i \in 2..Len(task[t].sent) :
        /\ task[t].sent[i].to = CDN_LOCATION
        /\ HGet(task[t].sent[i-1].headers, "authorization") = "Bearer tokA"

\* C2: getAuthToken answers from the cache, without a network call, only when
\* the entry of its key exists and now < expiresAt; the token it returns is
\* that entry's token.
C2_CacheHitOnlyWhenFresh ==
    [][\A t \in Tasks :
         (task[t].pc = "idle" /\ task'[t].call.hit)
            => LET key == task'[t].call.cacheKey
               IN  /\ key \in DOMAIN tokenCache
                   /\ now < tokenCache[key].expiresAt
                   /\ task'[t].call.result = tokenCache[key].token
                   /\ task'[t].sent = << >>]_vars

\* a hit some time after the entry was written
C2_Witness ==
    \E t \in Tasks :
        /\ task[t].call.hit
        /\ now > 0
        /\ now < tokenCache[task[t].call.cacheKey].expiresAt

\* C3: under any interleaving, a getAuthToken call that begins while the entry
\* of its key is within its TTL window (written, and now < expiresAt) sends no
\* request to the auth service; a call that begins with no entry or at
\* now >= expiresAt is no hit, and when it returns it has sent exactly one
\* request, or exactly two when the first answer was 429.
C3_CallsPerGetToken ==
    /\ [](\A t \in Tasks :
            LET c == task[t].call
            IN  c.state = "returned"
                   => IF c.hit
                      THEN c.requests = 0 /\ task[t].sent = << >>
                      ELSE /\ c.requests = IF c.first = 429 THEN 2 ELSE 1
                           /\ Len(task[t].sent) = c.requests)
    /\ [][\A t \in Tasks :
            (task[t].pc = "idle" /\ task'[t].pc # "idle")
               => LET key == task'[t].call.cacheKey
                  IN  task'[t].call.hit
                         <=> (key \in DOMAIN tokenCache
                                /\ now < tokenCache[key].expiresAt)]_vars

\* an entry was written, it ran out, and the call that then refetched it met a
\* 429 and sent two requests, while the other task had fetched the same key
C3_Witness ==
    \E t, u \in Tasks :
        /\ t # u
        /\ task[t].call.state = "returned"
        /\ ~task[t].call.hit
        /\ task[t].call.first = 429
        /\ task[t].call.requests = 2
        /\ task[u].call.state = "returned"
        /\ task[u].call.cacheKey = task[t].call.cacheKey
        /\ task[u].call.requests = 1
        /\ now >= TOKEN_CACHE_TTL

\* C4: in worker.js, after a first answer of 429 the same token request is sent
\* exactly once more and not before the 10 s backoff has elapsed; no third
\* request is ever sent, and a second answer that is not 2xx gives no token.
C4_SingleRetryAfterBackoff ==
    \A t \in Tasks :
        LET c == task[t].call
        IN  variant = "passive" =>
              /\ c.requests <= 2
              /\ (task[t].pc = "backoff" => c.requests = 1 /\ c.first = 429)
              /\ (c.first = 429 /\ task[t].pc # "backoff" => c.requests = 2)
              /\ (c.requests = 2 =>
                    /\ c.first = 429
                    /\ task[t].sentAt >= c.sleptFrom + BACKOFF_MS
                    /\ Len(task[t].sent) = 2
                    /\ task[t].sent[2] = task[t].sent[1])
              /\ (c.first = 429 /\ c.state = "returned" /\ ~IsOk(c.final)
                    => c.result = NULL)

\* rate limited twice: two requests, no token
C4_Witness ==
    \E t \in Tasks :
        /\ variant = "passive"
        /\ Done(t)
        /\ task[t].call.first = 429
        /\ task[t].call.final = 429
        /\ task[t].call.requests = 2
        /\ task[t].call.result = NULL

\* the token a token response carries: token, else access_token, else none
CarriedToken(c) ==
    IF IsOk(c.final) /\ c.body.parses /\ Truthy(c.body.token) THEN c.body.token
    ELSE IF IsOk(c.final) /\ c.body.parses /\ Truthy(c.body.access_token)
         THEN c.body.access_token
    ELSE NULL

\* C5: getAuthToken never raises to its caller; after a transport error, a
\* non-2xx answer, an unparsable body or a body without token and access_token
\* it returns null, and it returns a token only when the final answer is 2xx
\* and carries a non-empty token or access_token (a cache hit of worker.js
\* makes no token request and is the subject of C2).
C5_GetTokenNeverRaises ==
    \A t \in Tasks :
        LET c == task[t].call
        IN  /\ c.state # "raised"
            /\ (c.state = "returned" /\ ~c.hit => c.result = CarriedToken(c))

\* a 2xx answer whose body does not parse: null, not an exception
C5_Witness ==
    \E t \in Tasks :
        /\ task[t].call.state = "returned"
        /\ task[t].call.requests = 1
        /\ IsOk(task[t].call.final)
        /\ ~task[t].call.body.parses
        /\ task[t].call.result = NULL

\* C6: every request ends in exactly one well-formed response and no error
\* leaves the fetch handler; a failure while forwarding upstream or following a
\* redirect gives 503 with code SERVICE_UNAVAILABLE.
C6_AlwaysOneResponse ==
    \A t \in Tasks :
        /\ ~task[t].escaped
        /\ (Done(t) <=> task[t].out # NoResp)
        /\ (Done(t) => task[t].out.status >= 200 /\ task[t].out.status <= 599)
        /\ (task[t].thrown =>
              /\ Done(t)
              /\ task[t].out.status = 503
              /\ task[t].out.headers = JsonHeaders
              /\ Len(task[t].out.body.errors) = 1
              /\ task[t].out.body.errors[1].code = "SERVICE_UNAVAILABLE"
              /\ task[t].out.body.errors[1].message # "")

\* the GET to the redirect target failed
C6_Witness ==
    \E t \in Tasks :
        /\ Done(t)
        /\ task[t].thrown
        /\ Len(task[t].sent) >= 2
        /\ LastSent(task[t]).to = CDN_LOCATION
        /\ task[t].out.status = 503


\* the service parameter of the challenges the registry sends in this model
ServiceSent(challenge) ==
    IF challenge = CHALLENGE_HUB THEN "registry.docker.io" ELSE "registry.example"

\* the passive variant relayed a final upstream 401
Passive401(t) ==
    /\ variant = "passive"
    /\ Done(t)
    /\ IsRegistryTask(t)
    /\ ~task[t].thrown
    /\ task[t].response.status = 401

\* C7 as stated: the rewritten WWW-Authenticate of worker.js points its realm
\* at https://<gateway-host>/v2/auth and keeps the service the upstream sent.
C7_ServicePreserved ==
    \A t \in Tasks :
        LET upstream == task[t].response
            wwwAuth == HGet(upstream.headers, "www-authenticate")
        IN  (Passive401(t) /\ HHas(upstream.headers, "www-authenticate"))
               => task[t].out =
                     Resp(401,
                          HSet(upstream.headers, "www-authenticate",
                               Challenge("https://gw.example/v2/auth", ServiceSent(wwwAuth))),
                          upstream.body)

\* C7 amended: a final upstream 401 with a non-empty WWW-Authenticate is relayed
\* by worker.js with status 401, the same body and the same other headers, and
\* with WWW-Authenticate replaced by realm https://<gateway-host>/v2/auth and
\* the fixed service registry.docker.io, whatever service and other parameters
\* the upstream sent; a 401 without WWW-Authenticate is relayed unchanged.
C7_ChallengeRewritten ==
    \A t \in Tasks :
        LET upstream == task[t].response
        IN  Passive401(t) =>
              IF Truthy(HGet(upstream.headers, "www-authenticate"))
              THEN task[t].out =
                      Resp(401,
                           HSet(upstream.headers, "www-authenticate",
                                "Bearer realm=\"https://gw.example/v2/auth\",service=\"registry.docker.io\""),
                           upstream.body)
              ELSE task[t].out = upstream

\* the upstream named another service and a scope; the gateway's challenge
\* names registry.docker.io
C7_Witness ==
    \E t \in Tasks :
        /\ Passive401(t)
        /\ HGet(task[t].response.headers, "www-authenticate") = CHALLENGE_OTHER
        /\ HGet(task[t].out.headers, "www-authenticate")
              = "Bearer realm=\"https://gw.example/v2/auth\",service=\"registry.docker.io\""

\* the active variant retried with a fetched token
ActiveRetried(t) ==
    /\ variant = "active"
    /\ IsRegistryTask(t)
    /\ ~HHas(task[t].req.headers, "authorization")
    /\ task[t].call.state = "returned"
    /\ Truthy(task[t].call.result)
    /\ Len(task[t].sent) = 3
    /\ task[t].sent[3].to = TargetUrl(task[t].req.path)
    /\ HGet(task[t].sent[3].headers, "authorization") = "Bearer " \o task[t].call.result

\* C8: in part_000, for a request without Authorization whose first attempt got
\* 401, whose token fetch gave a token and whose retry with Bearer <token> got
\* 200, the client receives 200 with the retry's headers and body, not the 401.
C8_RetryResultRelayed ==
    \A t \in Tasks :
        (ActiveRetried(t) /\ Done(t) /\ ~task[t].thrown /\ task[t].response.status = 200)
            => /\ task[t].out.status = 200
               /\ task[t].out.body = task[t].response.body
               /\ task[t].out.headers = task[t].response.headers

\* 401, token, retry, 200 with the manifest
C8_Witness ==
    \E t \in Tasks :
        /\ ActiveRetried(t)
        /\ Done(t)
        /\ task[t].response.status = 200
        /\ task[t].out.status = 200
        /\ task[t].out.body = Stream("manifest")

\* C9: /v2/auth has three outcomes. Without a scope (parameter absent or
\* empty): 200 with token = the obtained token, or "" when there is none. With
\* a scope and no token: 401 with code UNAUTHORIZED. With a scope and a token:
\* 200 with token = that token.
C9_AuthEndpointOutcomes ==
    \A t \in Tasks :
        (Done(t) /\ IsAuthTask(t)) =>
            LET scope == task[t].req.scope
                token == task[t].call.result
                out == task[t].out
            IN  IF ~Truthy(scope)
                THEN /\ out.status = 200
                     /\ out.body = [token |-> IF Truthy(token) THEN token ELSE ""]
                ELSE IF ~Truthy(token)
                THEN /\ out.status = 401
                     /\ out.body = ErrorBody("UNAUTHORIZED", "authentication failed")
                ELSE /\ out.status = 200
                     /\ out.body.token = token

\* no scope and no token: 200 with an empty token
C9_Witness ==
    \E t \in Tasks :
        /\ Done(t)
        /\ IsAuthTask(t)
        /\ task[t].req.scope = NULL
        /\ task[t].call.requests >= 1
        /\ task[t].call.result = NULL
        /\ task[t].out.status = 200
        /\ task[t].out.body = [token |-> ""]

\* the task asked the auth service and obtained no token, for any reason
NoTokenObtained(t) ==
    /\ Done(t)
    /\ task[t].call.requests >= 1
    /\ CarriedToken(task[t].call) = NULL

\* token issuance failed while the task was handled: the auth service answered,
\* and its final answer was non-2xx, malformed or without a token field
IssuanceFailed(t) == NoTokenObtained(t) /\ task[t].call.final # 0

\* C10 as stated: whenever token issuance fails, on /v2/auth or during the
\* auto-auth of part_000, the client receives 401.
C10_IssuanceFailureIs401 ==
    \A t \in Tasks : IssuanceFailed(t) => task[t].out.status = 401

\* C10 amended: whenever token issuance fails (also by a transport error) the
\* failure is 'no token' and the client never receives 503: it receives 401,
\* except on /v2/auth without a scope, where it receives 200 with an empty
\* token.
C10_IssuanceFailureNever503 ==
    \A t \in Tasks :
        NoTokenObtained(t) =>
            /\ task[t].call.state = "returned"
            /\ task[t].call.result = NULL
            /\ IF IsAuthTask(t) /\ ~Truthy(task[t].req.scope)
               THEN task[t].out.status = 200 /\ task[t].out.body = [token |-> ""]
               ELSE task[t].out.status = 401

\* part_000: the auto-auth got a 2xx body with no token in it; the client gets 401
C10_Witness ==
    \E t \in Tasks :
        /\ variant = "active"
        /\ IsRegistryTask(t)
        /\ IssuanceFailed(t)
        /\ IsOk(task[t].call.final)
        /\ task[t].call.body.parses
        /\ task[t].out.status = 401


\* the GETs the forwarder has sent to the Location of an upstream redirect
LocationGets(t) ==
    Cardinality({i \in 1..Len(task[t].sent) : task[t].sent[i].to = CDN_LOCATION})

\* C11 as stated: at most one GET goes to a redirect target; the answer to the
\* GET sent to the Location is followed further neither by the forwarder nor
\* by the HTTP transport.
C11_SingleHop ==
    \A t \in Tasks : LocationGets(t) + task[t].hops <= 1

\* C11 amended: the forwarder itself sends at most one GET to a redirect target
\* per inbound request, also after the retry of part_000, and sends nothing
\* after it; that GET is sent with redirect: 'follow', so further redirects of
\* the target are followed by the HTTP transport.
C11_ForwarderSingleHop ==
    \A t \in Tasks :
        /\ LocationGets(t) <= 1
        /\ \A i \in 1..Len(task[t].sent) :
              task[t].sent[i].to = CDN_LOCATION
                 => /\ i = Len(task[t].sent)
                    /\ task[t].sent[i].method = "GET"
                    /\ task[t].sent[i].redirect = "follow"
        /\ (task[t].hops > 0 => LocationGets(t) = 1)

\* part_000: first attempt, token, retry, GET to the Location, and the
\* transport followed a further redirect before the final answer
C11_Witness ==
    \E t \in Tasks :
        /\ variant = "active"
        /\ Done(t)
        /\ Len(task[t].sent) = 4
        /\ LocationGets(t) = 1
        /\ task[t].hops = 1
        /\ task[t].out.status = 200


\* the last upstream response is a 301/302/307 whose Location is missing or
\* does not parse
BadLocation(t) ==
    LET response == task[t].response IN
    /\ IsRegistryTask(t)
    /\ response # NoResp
    /\ IsRedirect(response.status)
    /\ ~ValidUrl(HGet(response.headers, "location"))

\* C12: when an upstream response is a 301/302/307 whose Location is missing
\* or malformed, nothing is sent to the Location and the client receives that
\* 3xx response unchanged, not an error response.
C12_BadLocationPassesThrough ==
    \A t \in Tasks :
        (Done(t) /\ BadLocation(t)) =>
            /\ \A i \in 1..Len(task[t].sent) : ValidUrl(task[t].sent[i].to)
            /\ ~task[t].thrown
            /\ task[t].out.status = task[t].response.status
            /\ task[t].out.headers = task[t].response.headers
            /\ task[t].out.body = task[t].response.body


\* the non-empty segments of the path parseScope was applied to
Parts == NonEmpty(argPath)

IsMarker(x) == x \in {"manifests", "blobs", "tags", "referrers"}

HasMarker == \E k \in 1..Len(Parts) : IsMarker(Parts[k])

\* position (from 1) of the first marker among the non-empty segments
FirstMarker ==
    CHOOSE k \in 1..Len(Parts) :
        IsMarker(Parts[k]) /\ \A j \in 1..(k - 1) : ~IsMarker(Parts[j])

\* repository:<name>:pull for the segments between the leading one and the
\* first marker, library/ in front of a single segment
ScopeOfName ==
    LET name == SubSeq(Parts, 2, FirstMarker - 1)
    IN  "repository:" \o (IF Len(name) = 1 THEN "library/" ELSE "") \o Join(name) \o ":pull"

\* C13 as stated: for every path whose non-empty segments include manifests,
\* blobs, tags or referrers, parseScope returns repository:<name>:pull, <name>
\* being the segments between the leading one and the first marker joined by
\* '/', with library/ in front when it is a single segment.
C13_RepositoryScope ==
    (retScope # NULL /\ HasMarker) => retScope = ScopeOfName

\* C13 amended: the same, for paths that have no _catalog segment and at least
\* one segment between the leading one and the first marker; with a marker and
\* no _catalog but no segment in between, the result is the empty scope.
C13_RepositoryScopeWhenNamed ==
    (retScope # NULL /\ HasMarker /\ \A k \in 1..Len(Parts) : Parts[k] # "_catalog")
        => IF FirstMarker >= 3 THEN retScope = ScopeOfName ELSE retScope = ""

\* /v2/org/nginx/manifests gives repository:org/nginx:pull
C13_Witness ==
    /\ argPath = <<"v2", "org", "nginx", "manifests">>
    /\ retScope = "repository:org/nginx:pull"

\* C14 as stated: for every path with a segment equal to _catalog, parseScope
\* returns registry:catalog:* whatever the number and content of the other
\* segments.
C14_CatalogScope ==
    (retScope # NULL /\ \E k \in 1..Len(Parts) : Parts[k] = "_catalog")
        => retScope = "registry:catalog:*"

\* C14 amended: for every path with a segment equal to _catalog and at least two
\* non-empty segments, parseScope returns registry:catalog:*, also when a
\* marker segment is present; a path whose only non-empty segment is _catalog
\* gives the empty scope.
C14_CatalogScopeTwoSegments ==
    (retScope # NULL /\ \E k \in 1..Len(Parts) : Parts[k] = "_catalog")
        => IF Len(Parts) >= 2 THEN retScope = "registry:catalog:*" ELSE retScope = ""

\* /v2/nginx/manifests/_catalog: a marker comes first, the catalog scope wins
C14_Witness ==
    /\ argPath = <<"v2", "nginx", "manifests", "_catalog">>
    /\ retScope = "registry:catalog:*"


\* the (scope, credential) pair of the getToken call of a task
Pair(t) == <<task[t].call.scope, task[t].call.authorization>>

Called(t) == task[t].call.state # "none"

\* u was answered from the cache with the token that t fetched and stored
HitOn(u, t) ==
    /\ Called(t) /\ Called(u)
    /\ task[u].call.hit
    /\ ~task[t].call.hit
    /\ task[t].call.state = "returned"
    /\ task[t].call.result # NULL
    /\ task[u].call.cacheKey = task[t].call.cacheKey

\* C15: two getToken calls whose (scope, credential-or-absent) pairs differ
\* have different cache keys, so a token fetched for one pair is never returned
\* from the cache to a call with another scope or another (or no) credential.
C15_KeyPerPair ==
    \A t, u \in Tasks :
        (Called(t) /\ Called(u) /\ Pair(t) # Pair(u))
            => /\ task[t].call.cacheKey # task[u].call.cacheKey
               /\ ~HitOn(u, t)


\* the getToken call of t ends in this step
Returns(t) ==
    /\ task[t].call.state \in {"none", "running"}
    /\ task'[t].call.state \in {"returned", "raised"}

\* this step is a token fetch of t that succeeds and writes the entry of t's key
WritesOwnEntry(t) ==
    LET key == task[t].call.cacheKey IN
    /\ task[t].pc = "tokenBody"
    /\ Returns(t)
    /\ ~task'[t].call.hit
    /\ task'[t].call.result # NULL
    /\ DOMAIN tokenCache' = DOMAIN tokenCache \cup {key}
    /\ tokenCache'[key] =
          [token |-> task'[t].call.result, expiresAt |-> now + TOKEN_CACHE_TTL]
    /\ \A k \in DOMAIN tokenCache \ {key} : tokenCache'[k] = tokenCache[k]

\* C16: the cache changes only by a successful token fetch, which writes only
\* the entry of its own key, with expiresAt = write time + TTL; a call that
\* hits the cache or ends without a token leaves the cache as it is; no entry
\* is deleted and the expiresAt of a key never decreases.
C16_CacheFrame ==
    [][ /\ \A k \in DOMAIN tokenCache :
              /\ k \in DOMAIN tokenCache'
              /\ tokenCache'[k].expiresAt >= tokenCache[k].expiresAt
        /\ (tokenCache' # tokenCache) => \E t \in Tasks : WritesOwnEntry(t)
        /\ \A t \in Tasks :
              (Returns(t) /\ (task'[t].call.hit \/ task'[t].call.result = NULL))
                  => tokenCache' = tokenCache
      ]_vars

\* two calls with one key both fetched a token, the second after the entry of
\* the first had expired: the entry was overwritten with a later expiresAt,
\* next to the entry of another key
C16_Witness ==
    \E t, u \in Tasks :
        /\ t # u
        /\ task[t].call.state = "returned" /\ task[u].call.state = "returned"
        /\ ~task[t].call.hit /\ ~task[u].call.hit
        /\ task[t].call.result # NULL /\ task[u].call.result # NULL
        /\ task[t].call.cacheKey = task[u].call.cacheKey
        /\ tokenCache[task[t].call.cacheKey].expiresAt > TOKEN_CACHE_TTL


\* t fetched and stored the token that the cache holds under key
Fetched(t, key) ==
    /\ task[t].call.state = "returned"
    /\ ~task[t].call.hit
    /\ task[t].call.result # NULL
    /\ task[t].call.cacheKey = key

\* the moment the entry of key was written
WrittenAt(key) == tokenCache[key].expiresAt - TOKEN_CACHE_TTL

\* C17: every token that getToken returns as a cache hit was issued less than
\* the issuer lifetime of 300 s before the moment it is returned, when the
\* token response arrived and was stored at most the request timeout after the
\* token was issued.
C17_HitYoungerThanLifetime ==
    [][ \A u \in Tasks :
          (~task[u].call.hit /\ task'[u].call.hit) =>
              LET key == task'[u].call.cacheKey IN
              \A t \in Tasks \ {u} :
                  (/\ Fetched(t, key)
                   /\ WrittenAt(key) - task[t].call.issuedAt <= TIMEOUT_MS_PASSIVE)
                      => now - task[t].call.issuedAt < ISSUER_LIFETIME
      ]_vars


\* the positions after the first at which the request went to the registry again
Retries(t) ==
    {i \in 2..Len(task[t].sent) : task[t].sent[i].to = TargetUrl(task[t].req.path)}

\* C18: in part_000 the token fetch and the retry happen only when the first
\* upstream response is 401 and the outbound request carried no Authorization;
\* with an Authorization header, or without a token, nothing is sent again and
\* the forwarder returns the original 401; the retry is the original request
\* with Authorization: Bearer <token> added and nothing else changed.
C18_RetryOnlyOnAnonymous401 ==
    \A t \in Tasks :
        (variant = "active" /\ IsRegistryTask(t)) =>
            LET tk == task[t]
                first == tk.sent[1]
            IN  /\ (tk.pc \in {"token1", "tokenBody", "retry"})
                      => /\ tk.response.status = 401
                         /\ ~HHas(first.headers, "authorization")
                /\ (tk.call.state # "none") => ~HHas(first.headers, "authorization")
                /\ HHas(first.headers, "authorization")
                      => /\ Len(tk.sent) = 1 \/ LocationGets(t) = 1
                         /\ Retries(t) = {}
                /\ (Done(t) /\ tk.call.state # "none" /\ ~Truthy(tk.call.result))
                      => /\ Len(tk.sent) = 2
                         /\ tk.response.status = 401
                         /\ ~tk.thrown
                         /\ tk.out.status = 401
                /\ \A i \in Retries(t) :
                      /\ i = 3
                      /\ tk.sent[2].to = TokenUrl(parseScope(tk.req.path))
                      /\ Truthy(tk.call.result)
                      /\ tk.sent[i] =
                            [first EXCEPT !.headers =
                                HSet(first.headers, "authorization",
                                     "Bearer " \o tk.call.result)]

\* the retry of a GET that had an Accept header and no Authorization is under way
C18_Witness ==
    \E t \in Tasks :
        /\ variant = "active"
        /\ task[t].pc = "retry"
        /\ Retries(t) = {3}
        /\ HHas(task[t].sent[3].headers, "accept")
        /\ HGet(task[t].sent[3].headers, "authorization") = "Bearer " \o task[t].call.result
        /\ ~HHas(task[t].sent[1].headers, "authorization")


\* the clock of the model has stopped before the 10 s of a backoff were over
ClockStopped(t) ==
    task[t].pc = "backoff" /\ ticks = MaxTicks /\ ~BackoffDue(task[t])

\* fetch calls of the forwarder: to the registry and to a Location
UpstreamCalls(t) ==
    Cardinality({i \in 1..Len(task[t].sent) :
                    task[t].sent[i].to \in {TargetUrl(task[t].req.path), CDN_LOCATION}})

\* C19: every inbound request eventually completes with a response: no step of
\* its handling (token fetch with the read of its body, 429 backoff, upstream
\* forward, retry, redirect follow) blocks for ever, each network call
\* returning or timing out; worker.js makes at most 2 upstream calls per
\* registry request and at most 2 auth-service calls per getToken.
C19_AlwaysCompletes ==
    /\ \A t \in Tasks : (task[t].pc # "idle") ~> (Done(t) \/ ClockStopped(t))
    /\ [](\A t \in Tasks :
            variant = "passive" => UpstreamCalls(t) <= 2 /\ task[t].call.requests <= 2)


\* an attempt was started with the body stream that an earlier attempt had
\* already read: fetch refused it
BodyReused(t) ==
    /\ task[t].thrown
    /\ task[t].fetchOptions.body = "used"
    /\ task[t].out = Unavailable("This ReadableStream is disturbed")

\* C20: the forward request descriptor is not shared across attempts: the
\* sanitized headers of the dispatcher are the same before and after
\* handleDockerRequest, the retry and the redirect follow-ups work on copies,
\* and no attempt uses a part of the descriptor, headers or body, that an
\* earlier attempt of the same inbound request has consumed or modified.
C20_DescriptorNotShared ==
    \A t \in Tasks :
        IsRegistryTask(t) =>
            /\ task[t].fetchOptions.headers = Sanitize(task[t].req.headers)
            /\ \A i \in 2..Len(task[t].sent) : task[t].sent[i].body # "stream"
            /\ ~BodyReused(t)

====
